---- MODULE Spec2Model ----
(***************************************************************************)
(* A model of the BWT data-update coordinator                              *)
(* (custom_components/bwthaf/coordinator.py) and of the availability flag  *)
(* the entities derive from it (binary_sensor.py).                         *)
(*                                                                         *)
(* One poll cycle is one action, _async_update_data.  The vendor's HTTP    *)
(* responses are the inputs of a cycle and are drawn from small sets.      *)
(* Time is the host loop's monotonic clock in abstract units; the two      *)
(* readings a cycle takes of it are the same reading.                      *)
(***************************************************************************)
EXTENDS Integers, Sequences, FiniteSets, TLC

(***************************************************************************)
(* Bounds of the model.                                                    *)
(***************************************************************************)
\* Largest cumulative water volume the device reports.
MaxVol == 2
\* Largest reading of the monotonic clock.
MaxTime == 4
\* Largest number of items in the categories of a summary under test.
MaxItems == 2

(***************************************************************************)
(* Python values.  Every value carries its type, so that the coercions of  *)
(* the consumption extractor can be modelled by what they do.              *)
(***************************************************************************)
Absent == [t |-> "absent"]
NullV == [t |-> "null"]
IntV(i) == [t |-> "int", i |-> i]
BoolV(b) == [t |-> "bool", b |-> b]
\* A string that is not a decimal number ("" is the empty string).
StrV(s) == [t |-> "str", s |-> s]
\* The decimal string of n, e.g. "42".
NumStrV(n) == [t |-> "numstr", n |-> n]
\* A timestamp string for instant n written in format fmt.
TsV(fmt, n) == [t |-> "ts", fmt |-> fmt, n |-> n]
\* The aware UTC instant dt_util.as_utc makes of the naive datetime n.
UtcV(n) == [t |-> "utc", n |-> n]

\* Python truthiness of a value.
Truthy(v) ==
    CASE v.t = "absent" -> FALSE
      [] v.t = "null" -> FALSE
      [] v.t = "int" -> v.i # 0
      [] v.t = "bool" -> v.b
      [] v.t = "str" -> v.s # ""
      [] OTHER -> TRUE

\* int(v): defined on ints, bools and decimal strings; raises otherwise.
IntDefined(v) == v.t \in {"int", "bool", "numstr"}

IntOf(v) ==
    CASE v.t = "int" -> v.i
      [] v.t = "bool" -> (IF v.b THEN 1 ELSE 0)
      [] v.t = "numstr" -> v.n
      [] OTHER -> 0

(***************************************************************************)
(* Dictionaries are functions from keys to values.                         *)
(***************************************************************************)
EmptyDict == [k \in {} |-> NullV]

\* dict.update
Update(d, u) ==
    [k \in (DOMAIN d) \cup (DOMAIN u) |-> IF k \in DOMAIN u THEN u[k] ELSE d[k]]

\* d[key] = value
Put(d, key, value) == Update(d, key :> value)

DictLen(d) == Cardinality(DOMAIN d)

(***************************************************************************)
(* Texts are sequences of characters; a literal part of a message that     *)
(* holds no digit is kept as one element.                                  *)
(***************************************************************************)
Contains(text, part) ==
    \E i \in 1..(Len(text) - Len(part) + 1) :
        SubSeq(text, i, i + Len(part) - 1) = part

\* "401" in str(err) or "403" in str(err)
HasAuthMarker(text) ==
    \/ Contains(text, <<"4", "0", "1">>)
    \/ Contains(text, <<"4", "0", "3">>)

(***************************************************************************)
(* Errors raised inside a cycle: a kind and the text str(err) gives.       *)
(***************************************************************************)
NoErr == [kind |-> "none", text |-> <<>>]
Err(kind, text) == [kind |-> kind, text |-> text]

(***************************************************************************)
(* Authenticator (_authenticate).                                          *)
(***************************************************************************)
NoKey == "None"

\* The first dashboard link whose information block names the serial number
\* and whose href carries a receiptLineKey; NoKey when no link does.
RECURSIVE FindReceiptLineKey(_, _)
FindReceiptLineKey(links, serial) ==
    IF links = <<>> THEN NoKey
    ELSE LET link == Head(links) IN
         IF link.info /\ Contains(link.span, serial) /\ link.key # ""
         THEN link.key
         ELSE FindReceiptLineKey(Tail(links), serial)

\* _authenticate storing the key of the first link before it has looked for
\* the serial number.
_authenticate_key_before_serial(login, dashboard, serial) ==
    IF login # 200
    THEN [ok |-> FALSE, key |-> NoKey,
          err |-> Err("AuthenticationFailed", <<"Authentication failed">>)]
    ELSE LET found == FindReceiptLineKey(dashboard, serial) IN
         IF found # NoKey
         THEN [ok |-> TRUE, key |-> found, err |-> NoErr]
         ELSE [ok |-> FALSE,
               key |-> IF dashboard = <<>> THEN NoKey ELSE Head(dashboard).key,
               err |-> Err("SerialNotFound",
                           <<"Serial number ">> \o serial
                               \o <<" not found in dashboard">>)]

\* The outcome of _authenticate: the key it stores, or the error it raises.
_authenticate(login, dashboard, serial) ==
    IF login # 200
    THEN [ok |-> FALSE, key |-> NoKey,
          err |-> Err("AuthenticationFailed", <<"Authentication failed">>)]
    ELSE LET found == FindReceiptLineKey(dashboard, serial) IN
         IF found # NoKey
         THEN [ok |-> TRUE, key |-> found, err |-> NoErr]
         ELSE [ok |-> FALSE, key |-> NoKey,
               err |-> Err("SerialNotFound",
                           <<"Serial number ">> \o serial
                               \o <<" not found in dashboard">>)]

(***************************************************************************)
(* Main-data extractor (_get_main_data).                                   *)
(***************************************************************************)
code_mapping ==
    [c \in {"resinVol", "inHardness", "outHardness", "pressure", "salt",
            "volOK", "rssiLevel"} |->
        CASE c = "resinVol" -> "resin_vol"
          [] c = "inHardness" -> "in_hardness"
          [] c = "outHardness" -> "out_hardness"
          [] c = "pressure" -> "pressure"
          [] c = "salt" -> "salt"
          [] c = "volOK" -> "vol_ok"
          [] c = "rssiLevel" -> "wifi_signal"]

\* d.get(key, default) on a record whose missing entries are Absent.
GetOr(v, default) == IF v.t = "absent" THEN default ELSE v

\* The loop body writing an item of an unknown code under the code itself.
MapItemAnyCode(result, item) ==
    IF /\ Truthy(item.code)
       /\ item.value.t # "null"
       /\ item.code.t = "str"
    THEN Put(result,
             IF item.code.s \in DOMAIN code_mapping
             THEN code_mapping[item.code.s] ELSE item.code.s,
             item.value)
    ELSE result

\* The loop body of one item of a category.
MapItem(result, item) ==
    IF /\ Truthy(item.code)
       /\ item.value.t # "null"
       /\ item.code.t = "str"
       /\ item.code.s \in DOMAIN code_mapping
    THEN Put(result, code_mapping[item.code.s], item.value)
    ELSE result

RECURSIVE MapItems(_, _)
MapItems(result, items) ==
    IF items = <<>> THEN result
    ELSE MapItems(MapItem(result, Head(items)), Tail(items))

RECURSIVE MapCategories(_, _)
MapCategories(result, categories) ==
    IF categories = <<>> THEN result
    ELSE LET c == Head(categories) IN
         MapCategories(IF c.list THEN MapItems(result, c.items) ELSE result,
                       Tail(categories))

\* The outcome of _get_main_data on the summary response resp.
_get_main_data(resp) ==
    IF resp.status # 200
    THEN [ok |-> FALSE, result |-> EmptyDict]
    ELSE LET body == resp.body
             top == ("online" :> GetOr(body.online, BoolV(FALSE)))
                    @@ ("standby" :> GetOr(body.standBy, BoolV(FALSE)))
                    @@ ("salt" :> GetOr(body.salt, NullV))
         IN [ok |-> TRUE, result |-> MapCategories(top, body.dataCategories)]

(***************************************************************************)
(* Consumption extractor (_get_consumption_data).                          *)
(***************************************************************************)
\* The formats tried on refreshDate, in the order of the source.
RefreshFormats == <<"iso_ms", "space", "iso", "date">>

\* datetime.strptime(v, fmt) succeeds exactly on a string written in fmt.
Parses(v, fmt) == v.t = "ts" /\ v.fmt = fmt

\* The refresh_date the format loop stores: the UTC instant of the first
\* format that parses, None when none does or when strptime raises.
ParseRefreshDate(v) ==
    IF \E i \in 1..Len(RefreshFormats) : Parses(v, RefreshFormats[i])
    THEN UtcV(v.n)
    ELSE NullV

\* last_update: the date-only parse of last_date, None when it raises.
ParseLastDate(v) == IF Parses(v, "date") THEN UtcV(v.n) ELSE NullV

\* int(x) if x else 0
IntOrZero(v) == IF Truthy(v) THEN IntOf(v) ELSE 0

\* Whether "int(x) if x else 0" raises.
IntOrZeroRaises(v) == Truthy(v) /\ ~IntDefined(v)

\* x if isinstance(x, bool) else False
BoolOrFalse(v) == IF v.t = "bool" THEN v ELSE BoolV(FALSE)

\* The fields read off the first line of the dataset.
LineFields(first_line, salt_per_regen) ==
    LET regen_count == IntOrZero(first_line[2]) IN
    ("last_date" :> first_line[1])
    @@ ("regen_count" :> IntV(regen_count))
    @@ ("power_outage" :> BoolOrFalse(first_line[3]))
    @@ ("water_consumption" :> IntV(IntOrZero(first_line[4])))
    @@ ("salt_alarm" :> BoolOrFalse(first_line[5]))
    @@ ("salt_consumption" :> IntV(regen_count * salt_per_regen))
    @@ ("last_update" :> ParseLastDate(first_line[1]))

Raised == [ok |-> FALSE, result |-> EmptyDict]

\* What the extractor does once the graph container is found.
ParseGraph(resp) ==
    LET salt_value == GetOr(resp.salt, NumStrV(0))
        withSalt == "salt_per_regen" :> IntV(IntOf(salt_value))
        withRefresh ==
            IF Truthy(resp.refreshDate)
            THEN Put(withSalt, "refresh_date", ParseRefreshDate(resp.refreshDate))
            ELSE withSalt
        qualifies == resp.lines # <<>> /\ Len(resp.lines[1]) >= 5
    IN IF ~resp.datasetOk \/ ~IntDefined(salt_value)
       THEN Raised
       ELSE IF ~qualifies
       THEN [ok |-> TRUE, result |-> withRefresh]
       ELSE IF \/ IntOrZeroRaises(resp.lines[1][2])
               \/ IntOrZeroRaises(resp.lines[1][4])
       THEN Raised
       ELSE [ok |-> TRUE,
             result |-> Update(withRefresh,
                               LineFields(resp.lines[1], IntOf(salt_value)))]

\* GraphAbsent raising like the missing live container does.
GraphAbsentRaises == [ok |-> FALSE, result |-> EmptyDict]

\* What the absence of the graph container in the second response yields.
GraphAbsent == [ok |-> TRUE, result |-> EmptyDict]

\* What the absence of the live container in the first response yields.
LiveAbsent == Raised

\* The outcome of _get_consumption_data on the two responses of resp.
_get_consumption_data(resp) ==
    IF ~resp.live THEN LiveAbsent
    ELSE IF ~resp.propsOk THEN Raised
    ELSE IF ~resp.graph THEN GraphAbsent
    ELSE ParseGraph(resp)

(***************************************************************************)
(* Rollover-aware counter (the increment block of _async_update_data).     *)
(***************************************************************************)
\* WaterIncrement without the rollover branch.
WaterIncrementNoRollover(current, last) ==
    IF last > 0 THEN current - last ELSE 0

\* WaterIncrement taking an unchanged value for a rollover.
WaterIncrementRolloverOnEqual(current, last) ==
    IF last > 0
    THEN IF current <= last THEN current ELSE current - last
    ELSE 0

\* The increment for the value current given the stored baseline last.
WaterIncrement(current, last) ==
    IF last > 0
    THEN IF current < last THEN current ELSE current - last
    ELSE 0

\* The block keeping the old baseline when the value went down.
ComputeIncrementStaleOnRollover(d, last) ==
    IF "water_consumption" \in DOMAIN d
    THEN LET current == d["water_consumption"].i IN
         [data |-> Put(d, "water_increment", IntV(WaterIncrement(current, last))),
          last |-> IF current < last THEN last ELSE current, ran |-> TRUE]
    ELSE [data |-> d, last |-> last, ran |-> FALSE]

\* The block as a whole: the snapshot with the increment attached and the
\* new baseline; both unchanged when the snapshot has no water_consumption.
ComputeIncrement(d, last) ==
    IF "water_consumption" \in DOMAIN d
    THEN LET current == d["water_consumption"].i IN
         [data |-> Put(d, "water_increment", IntV(WaterIncrement(current, last))),
          last |-> current, ran |-> TRUE]
    ELSE [data |-> d, last |-> last, ran |-> FALSE]

\* The floor of the sufficiency check.
MinFields == 3

\* Insufficient with a floor above what one main fetch brings.
InsufficientHighFloor(d) == d = EmptyDict \/ DictLen(d) < MinFields + 2

\* Insufficient with the floor off by one.
InsufficientOffByOne(d) == d = EmptyDict \/ DictLen(d) < MinFields - 1

\* Insufficient without the length test.
InsufficientOnlyEmpty(d) == d = EmptyDict

\* "not data or len(data) < 3"
Insufficient(d) == d = EmptyDict \/ DictLen(d) < MinFields

(***************************************************************************)
(* The configuration entry and the vendor's responses a cycle may meet.    *)
(***************************************************************************)
\* Abstract time units; the source imports the value from const.py.
DEFAULT_INTERVAL_MAIN == 2

\* The main interval the configuration entry may carry, and the ones an
\* options update may set.
ConfiguredInterval == 3
OptionIntervals == {1}

\* Abstract time units; the source imports the value from const.py.
DEFAULT_INTERVAL_CONSUMPTION == 1

\* The consumption interval the configuration entry may carry, and the ones
\* an options update may set.
ConfiguredConsumptionInterval == 2
OptionConsumptionIntervals == {4}

SerialA == <<"S", "N", "1", "2", "3">>
SerialB == <<"S", "N", "4", "0", "1">>
Serials == {SerialA, SerialB}

\* Status codes of the login response.
Logins == {200, 401}

Link(info, span, key) == [info |-> info, span |-> span, key |-> key]

\* Dashboard pages: the device links in document order.
Dashboards ==
    { <<>>,
      <<Link(TRUE, SerialA, "K1")>>,
      <<Link(FALSE, SerialB, "K9"), Link(TRUE, SerialB, "K2")>> }

Item(code, value) == [code |-> code, value |-> value]
Category(list, items) == [list |-> list, items |-> items]

Summary(status, online, standBy, salt, dataCategories) ==
    [status |-> status,
     body |-> [online |-> online, standBy |-> standBy, salt |-> salt,
               dataCategories |-> dataCategories]]

\* Summary responses: an authentication-class refusal, a full summary with
\* a catalogued and an unknown code, and a bare summary whose categories
\* hold a non-list entry, a catalogued code and a null value.
MainResponses ==
    { Summary(401, Absent, Absent, Absent, <<>>),
      Summary(200, BoolV(TRUE), BoolV(FALSE), IntV(1),
              <<Category(TRUE, <<Item(StrV("resinVol"), IntV(1)),
                                 Item(StrV("newCode"), IntV(1))>>)>>),
      Summary(200, Absent, Absent, Absent,
              <<Category(FALSE, <<>>),
                Category(TRUE, <<Item(StrV("salt"), IntV(2)),
                                 Item(StrV("pressure"), NullV)>>)>>) }

Conso(status, live, propsOk, graph, salt, datasetOk, refreshDate, lines) ==
    [status |-> status, live |-> live, propsOk |-> propsOk, graph |-> graph,
     salt |-> salt, datasetOk |-> datasetOk, refreshDate |-> refreshDate,
     lines |-> lines]

\* A full first line reporting the cumulative volume water.
FullLine(water) ==
    <<TsV("date", 1), NumStrV(2), BoolV(TRUE), water, StrV("no")>>

\* Responses of the device page and of the loadConso endpoint.
ConsResponses ==
    { Conso(401, FALSE, FALSE, FALSE, Absent, FALSE, Absent, <<>>),
      Conso(200, FALSE, FALSE, FALSE, Absent, FALSE, Absent, <<>>),
      Conso(200, TRUE, FALSE, FALSE, Absent, FALSE, Absent, <<>>),
      Conso(200, TRUE, TRUE, FALSE, Absent, FALSE, Absent, <<>>),
      Conso(200, TRUE, TRUE, TRUE, StrV("n/a"), TRUE, Absent, <<>>),
      Conso(200, TRUE, TRUE, TRUE, NumStrV(2), TRUE, Absent, <<>>),
      Conso(200, TRUE, TRUE, TRUE, Absent, TRUE, TsV("iso", 1),
            <<<<TsV("date", 1), NumStrV(2), BoolV(TRUE), IntV(1)>>>>),
      Conso(200, TRUE, TRUE, TRUE, NumStrV(2), TRUE, Absent,
            <<FullLine(StrV("n/a"))>>),
      Conso(200, TRUE, TRUE, TRUE, NumStrV(2), TRUE, Absent,
            <<FullLine(NullV)>>) }
    \cup { Conso(200, TRUE, TRUE, TRUE, NumStrV(2), TRUE, Absent,
                 <<FullLine(IntV(v))>>) : v \in 0..MaxVol }

\* An HTTP status of the authentication class.
AuthClass(status) == status \in {401, 403}

(***************************************************************************)
(* State.                                                                  *)
(***************************************************************************)
VARIABLES
    serial_number,          \* entry.data[CONF_SERIAL_NUMBER]
    entry_data,             \* entry.data.get(CONF_INTERVAL_MAIN)
    entry_options,          \* entry.options.get(CONF_INTERVAL_MAIN)
    receipt_line_key,       \* the device token, NoKey when unset
    _last_main_update,       \* clock reading of the last successful main fetch
    _last_water_consumption, \* baseline of the rollover counter
    data,                   \* coordinator.data: [set, v], set FALSE for None
    last_update_success,    \* coordinator.last_update_success
    now,                    \* hass.loop.time()
    cycle,                  \* what the last cycle did
    entry_data_consumption,    \* entry.data.get(CONF_INTERVAL_CONSUMPTION)
    entry_options_consumption, \* entry.options.get(CONF_INTERVAL_CONSUMPTION)
    update_interval,        \* coordinator.update_interval, in time units
    summary,                \* a summary response given to _get_main_data
    main_data               \* what _get_main_data made of summary

vars == <<serial_number, entry_data, entry_options, receipt_line_key,
          _last_main_update, _last_water_consumption, data,
          last_update_success, now, cycle, entry_data_consumption,
          entry_options_consumption, update_interval, summary, main_data>>

\* The variables of the extractor taken alone.
extractorVars == <<summary, main_data>>

NoData == [set |-> FALSE, v |-> EmptyDict]
Published(d) == [set |-> TRUE, v |-> d]

\* BWTBinarySensor.available
available == last_update_success /\ data.set

\* The record kept of a cycle.
NoCycle ==
    [first |-> FALSE, keyBefore |-> NoKey, key |-> NoKey, prev |-> EmptyDict, steps |-> <<>>,
     main |-> "none", cons |-> "none",
     mainResult |-> EmptyDict, consResult |-> EmptyDict,
     live |-> FALSE, propsOk |-> FALSE, graph |-> FALSE,
     merged |-> EmptyDict, before |-> -1, seenBefore |-> FALSE,
     authClassSeen |-> FALSE, err |-> NoErr]

\* No summary is under test.
NoSummary == Summary(0, Absent, Absent, Absent, <<>>)
NotFetched == [done |-> FALSE, ok |-> FALSE, result |-> EmptyDict]

\* The update_interval __init__ hands to the DataUpdateCoordinator.
InitialUpdateInterval(options, configured) ==
    GetOr(options, GetOr(configured, IntV(DEFAULT_INTERVAL_CONSUMPTION))).i

\* The configuration entry carries both intervals or, written before the
\* intervals existed, neither.
EntryData ==
    { <<Absent, Absent>>,
      <<IntV(ConfiguredInterval), IntV(ConfiguredConsumptionInterval)>> }

\* The coordinator after construction.
InitCoordinator ==
    /\ serial_number \in Serials
    /\ \E configured \in EntryData :
          /\ entry_data = configured[1]
          /\ entry_data_consumption = configured[2]
    /\ entry_options = Absent
    /\ entry_options_consumption = Absent
    /\ update_interval
          = InitialUpdateInterval(entry_options_consumption,
                                  entry_data_consumption)
    /\ receipt_line_key = NoKey
    /\ _last_main_update = 0
    /\ _last_water_consumption = 0
    /\ data = NoData
    /\ last_update_success = TRUE
    /\ now = 0
    /\ cycle = NoCycle

Init ==
    /\ InitCoordinator
    /\ summary = NoSummary
    /\ main_data = NotFetched

(***************************************************************************)
(* Poll orchestrator (_async_update_data).                                 *)
(***************************************************************************)
\* The main interval read from the initial configuration first.
interval_main_data_first ==
    GetOr(entry_data, GetOr(entry_options, IntV(DEFAULT_INTERVAL_MAIN))).i

\* entry.options.get(K, entry.data.get(K, DEFAULT_INTERVAL_MAIN))
interval_main ==
    GetOr(entry_options, GetOr(entry_data, IntV(DEFAULT_INTERVAL_MAIN))).i

\* The gate taking a timestamp of 0 for "never fetched".
MainDueWhenNeverFetched ==
    _last_main_update = 0 \/ (now - _last_main_update) > interval_main

\* The gate opening as soon as the interval has elapsed.
MainDueNonStrict == (now - _last_main_update) >= interval_main

\* The gate of the main fetch.
MainDue == (now - _last_main_update) > interval_main

\* PreviousData starting every cycle from an empty dictionary.
PreviousDataFresh == EmptyDict

\* "dict(self.data) if self.data else {}"
PreviousData == IF data.set /\ data.v # EmptyDict THEN data.v ELSE EmptyDict

\* The Ensure-Auth step never calling the Authenticator.
EnsureAuthSkipped(login, dashboard) ==
    [ok |-> TRUE, key |-> receipt_line_key, err |-> NoErr]

\* The Ensure-Auth step: the Authenticator runs only without a token.
EnsureAuth(login, dashboard) ==
    IF receipt_line_key = NoKey
    THEN _authenticate(login, dashboard, serial_number)
    ELSE [ok |-> TRUE, key |-> receipt_line_key, err |-> NoErr]

\* MergeMain losing the snapshot when the main fetch fails.
MergeMainDropsPrevious(d, res) ==
    IF res.ok THEN Update(d, res.result) ELSE EmptyDict

\* The inner try of the main fetch: a failure merges nothing.
MergeMain(d, res) == IF res.ok THEN Update(d, res.result) ELSE d

\* MergeConsumption losing the snapshot when the consumption fetch fails.
MergeConsumptionDropsPrevious(d, res) ==
    IF res.ok THEN Update(d, res.result) ELSE EmptyDict

\* MergeConsumption replacing the snapshot by the consumption fields.
MergeConsumptionReplaces(d, res) == IF res.ok THEN res.result ELSE d

\* The inner try of the consumption fetch: a failure merges nothing.
MergeConsumption(d, res) == IF res.ok THEN Update(d, res.result) ELSE d

\* The outer except resetting the token on every error.
KeyAfterErrorAlwaysClears(key, err) == NoKey

\* The outer except: the token is reset on an error text with a marker.
KeyAfterError(key, err) == IF HasAuthMarker(err.text) THEN NoKey ELSE key

InsufficientError == Err("InsufficientData", <<"Insufficient data received">>)

\* What the Ensure-Auth step may come to on the vendor's login and dashboard
\* responses.
AuthOutcomes ==
    { EnsureAuth(login, dashboard) : login \in Logins, dashboard \in Dashboards }

\* What the main fetch may come to: skipped by the gate, or the extractor's
\* outcome on a summary response.
Skipped == [ran |-> FALSE, ok |-> FALSE, result |-> EmptyDict, authClass |-> FALSE]

MainFetched ==
    { [ran |-> TRUE, ok |-> _get_main_data(mresp).ok,
       result |-> _get_main_data(mresp).result,
       authClass |-> AuthClass(mresp.status)] : mresp \in MainResponses }

MainOutcomes == IF MainDue THEN MainFetched ELSE {Skipped}

\* What the consumption fetch may come to on the vendor's two responses.
ConsOutcomes ==
    { [ok |-> _get_consumption_data(cresp).ok,
       result |-> _get_consumption_data(cresp).result,
       live |-> cresp.live, propsOk |-> cresp.propsOk, graph |-> cresp.graph,
       authClass |-> AuthClass(cresp.status)] : cresp \in ConsResponses }

\* Whether a cycle so far has run the increment computation.
IncrementSeen == cycle.seenBefore \/ cycle.before # -1

\* A cycle that stops at the Authenticator.
AuthFailed(auth) ==
    /\ receipt_line_key' = KeyAfterError(auth.key, auth.err)
    /\ last_update_success' = FALSE
    /\ cycle' = [NoCycle EXCEPT !.first = (cycle.steps = <<>>),
                                !.keyBefore = receipt_line_key,
                                !.prev = PreviousData,
                                !.steps = <<"auth">>,
                                !.seenBefore = IncrementSeen,
                                !.err = auth.err]
    /\ UNCHANGED <<data, _last_main_update, _last_water_consumption>>

\* The end of a cycle that got past the Authenticator with the token key:
\* the sufficiency check, then the publication or the outer except.
Finish(key, steps, main, cons, inc) ==
    LET failed == Insufficient(inc.data)
        err == IF failed THEN InsufficientError ELSE NoErr
    IN /\ _last_main_update' = IF main.ok THEN now ELSE _last_main_update
       /\ _last_water_consumption' = inc.last
       /\ receipt_line_key' = IF failed THEN KeyAfterError(key, err) ELSE key
       /\ data' = IF failed THEN data ELSE Published(inc.data)
       /\ last_update_success' = ~failed
       /\ cycle' =
            [first |-> (cycle.steps = <<>>),
             keyBefore |-> receipt_line_key,
             key |-> key,
             prev |-> PreviousData,
             steps |-> steps \o (IF inc.ran THEN <<"increment">> ELSE <<>>)
                             \o (IF failed THEN <<>> ELSE <<"publish">>),
             main |-> IF ~main.ran THEN "skipped"
                      ELSE IF main.ok THEN "ok" ELSE "failed",
             cons |-> IF cons.ok THEN "ok" ELSE "failed",
             mainResult |-> main.result,
             consResult |-> cons.result,
             live |-> cons.live,
             propsOk |-> cons.propsOk,
             graph |-> cons.graph,
             merged |-> inc.data,
             before |-> IF inc.ran THEN _last_water_consumption ELSE -1,
             seenBefore |-> IncrementSeen,
             authClassSeen |-> main.authClass \/ cons.authClass,
             err |-> err]

\* A cycle that gets past the Authenticator: the two fetches, each merged
\* over the previous snapshot, then the increment.
Fetch(key, authSteps, main, cons) ==
    LET merged == MergeConsumption(
                      IF main.ran THEN MergeMain(PreviousData, main)
                      ELSE PreviousData,
                      cons)
        steps == authSteps \o (IF main.ran THEN <<"main">> ELSE <<>>)
                           \o <<"consumption">>
    IN Finish(key, steps, main, cons,
              ComputeIncrement(merged, _last_water_consumption))

\* One poll cycle on the responses the vendor gives it.
_async_update_data ==
    /\ \E auth \in AuthOutcomes :
        IF auth.ok
        THEN \E main \in MainOutcomes, cons \in ConsOutcomes :
                Fetch(auth.key,
                      IF receipt_line_key = NoKey THEN <<"auth">> ELSE <<>>,
                      main, cons)
        ELSE AuthFailed(auth)
    /\ UNCHANGED <<serial_number, entry_data, entry_options, now,
                   entry_data_consumption, entry_options_consumption,
                   update_interval, extractorVars>>

\* The monotonic clock advances between cycles.
Tick ==
    /\ now < MaxTime
    /\ now' = now + 1
    /\ UNCHANGED <<serial_number, entry_data, entry_options, receipt_line_key,
                   _last_main_update, _last_water_consumption, data,
                   last_update_success, cycle, entry_data_consumption,
                   entry_options_consumption, update_interval, extractorVars>>

\* The host applying updated options to the running coordinator: its
\* scheduling tick takes the consumption interval of the options.
ApplyOptions(consumption) == consumption.i

\* An options update stores the two intervals of the form in entry.options.
async_step_init ==
    \E i \in OptionIntervals, c \in OptionConsumptionIntervals :
        /\ entry_options' = IntV(i)
        /\ entry_options_consumption' = IntV(c)
        /\ update_interval' = ApplyOptions(IntV(c))
        /\ UNCHANGED <<serial_number, entry_data, receipt_line_key,
                       _last_main_update, _last_water_consumption, data,
                       last_update_success, now, cycle,
                       entry_data_consumption, extractorVars>>

Next == _async_update_data \/ Tick \/ async_step_init

Spec == Init /\ [][Next]_vars

(***************************************************************************)
(* Properties.                                                             *)
(***************************************************************************)
\* The last cycle got past the Authenticator.
PastAuth == cycle.cons # "none"

\* The last cycle ran the increment computation.
IncrementRan == cycle.before # -1

\* The cumulative value the last cycle fed to the increment computation and
\* the increment it attached.
Fed == cycle.merged["water_consumption"].i
Attached == cycle.merged["water_increment"].i

\* C1: over successive cycles the attached water_increment is 0 for the
\* first cumulative value fed to the increment computation, the difference
\* to the previous value when the value did not decrease, and the value
\* itself when it decreased (so 0, 150, 140, 300 gives 0, 150, 140, 160).
C1_IncrementFollowsRule ==
    IncrementRan =>
        Attached = IF ~cycle.seenBefore THEN 0
                   ELSE IF Fed >= cycle.before THEN Fed - cycle.before
                   ELSE Fed

\* C2: a cycle that met an authentication-class status (401/403) in its
\* main-data or consumption fetch ends with the device token cleared.
C2_TokenClearedOnAuthClassStatus ==
    (PastAuth /\ cycle.authClassSeen) => receipt_line_key = NoKey

\* The fields each extractor supplies.
MainFields ==
    {"online", "standby", "salt"}
        \cup { code_mapping[c] : c \in DOMAIN code_mapping }

ConsFields ==
    {"salt_per_regen", "refresh_date", "last_date", "regen_count",
     "power_outage", "water_consumption", "salt_alarm", "salt_consumption",
     "last_update"}

\* The failures that end a cycle.
CycleFailures == {"AuthenticationFailed", "SerialNotFound", "InsufficientData"}

\* The last cycle got past the Authenticator and exactly one of its two
\* fetches failed.
PartialFailure ==
    /\ PastAuth
    /\ (cycle.main = "failed") # (cycle.cons = "failed")

\* The fields of the extractor that failed in the last cycle.
FailedFields ==
    (IF cycle.main = "failed" THEN MainFields ELSE {})
        \cup (IF cycle.cons = "failed" THEN ConsFields ELSE {})

\* C3: a failure of the main fetch alone or of the consumption fetch alone
\* never fails the cycle by itself: the entities are unavailable only before
\* the first cycle or after a cycle that ended in an authentication, a
\* device-not-found or an insufficient-data failure; a cycle with a partial
\* failure fails only for insufficient data, succeeds whenever the previous
\* snapshot met the floor, and keeps the prior values of the failed fetch.
C3_PartialFailureNotFatal ==
    /\ ~available => (cycle = NoCycle \/ cycle.err.kind \in CycleFailures)
    /\ PartialFailure =>
        /\ ~last_update_success =>
              /\ cycle.err.kind = "InsufficientData"
              /\ DictLen(cycle.merged) < 3
        /\ DictLen(cycle.prev) >= 3 => available
        /\ data.set =>
              \A k \in (DOMAIN cycle.prev) \cap FailedFields :
                  k \in DOMAIN data.v /\ data.v[k] = cycle.prev[k]

\* C3 witness: the main fetch alone failed over a published snapshot whose
\* main fields the cycle kept, and the cycle succeeded.
C3_Witness ==
    /\ PartialFailure /\ cycle.main = "failed"
    /\ "online" \in DOMAIN cycle.prev
    /\ available

\* C4: the published snapshot is absent, and then no cycle has succeeded, or
\* it has at least 3 fields; a cycle publishes only a merged snapshot of 3
\* or more fields.
C4_PublishedHasThreeFields ==
    /\ data.set => DictLen(data.v) >= 3
    /\ ~data.set => (data = NoData /\ (cycle = NoCycle \/ ~last_update_success))
    /\ (PastAuth /\ last_update_success) =>
          (DictLen(cycle.merged) >= 3 /\ data = Published(cycle.merged))

\* C4 witness: a snapshot of exactly 3 fields is published.
C4_Witness == data.set /\ DictLen(data.v) = 3 /\ last_update_success

\* C5: from one state to the next the published snapshot never loses a
\* field name and never becomes empty or absent, and every field of an
\* extractor that was skipped or failed in the cycle keeps its value.
C5_SnapshotOnlyGrows ==
    [][data.set =>
        /\ data'.set
        /\ DOMAIN data'.v # {}
        /\ DOMAIN data.v \subseteq DOMAIN data'.v
        /\ \A k \in DOMAIN data.v :
              (\/ (k \in MainFields /\ cycle'.main # "ok")
               \/ (k \in ConsFields /\ cycle'.cons # "ok"))
                  => data'.v[k] = data.v[k]]_vars

\* C5 witness: a cycle whose main fetch was skipped and whose consumption
\* fetch failed over a snapshot holding fields of both extractors.
C5_Witness ==
    /\ PastAuth /\ cycle.main = "skipped" /\ cycle.cons = "failed"
    /\ {"online", "water_consumption"} \subseteq DOMAIN cycle.prev
    /\ data.set

\* The snapshot d without its water_increment.
WithoutIncrement(d) == [k \in (DOMAIN d) \ {"water_increment"} |-> d[k]]

\* C6: with the token held and a previous snapshot of at least 3 fields, a
\* cycle whose main fetch throws and whose consumption fetch succeeds
\* succeeds: it publishes the previous snapshot overwritten by the
\* consumption fields, plus the increment, and the entities stay available.
C6_MainFailureMergesConsumption ==
    (/\ PastAuth /\ cycle.keyBefore # NoKey
     /\ DictLen(cycle.prev) >= 3
     /\ cycle.main = "failed" /\ cycle.cons = "ok") =>
        /\ available
        /\ WithoutIncrement(data.v)
              = WithoutIncrement(Update(cycle.prev, cycle.consResult))
        /\ "water_consumption" \in DOMAIN data.v
              => "water_increment" \in DOMAIN data.v

\* C6 witness: the case of the scenario, a previous snapshot of 5 fields
\* and a consumption fetch that brings new fields.
C6_Witness ==
    /\ PastAuth /\ cycle.keyBefore # NoKey
    /\ DictLen(cycle.prev) = 5
    /\ cycle.main = "failed" /\ cycle.cons = "ok"
    /\ "water_consumption" \in DOMAIN cycle.consResult
    /\ available

\* The last cycle ended in the insufficient-data failure.
FailedInsufficient ==
    /\ ~last_update_success
    /\ ~available
    /\ cycle.err.kind = "InsufficientData"

\* C7: a cycle whose merged snapshot has fewer than 3 fields fails with the
\* insufficient-data failure and the entities are unavailable; so does a
\* first cycle whose main and consumption fetches both fail.
C7_InsufficientDataFails ==
    /\ (PastAuth /\ DictLen(cycle.merged) < 3) => FailedInsufficient
    /\ (cycle.first /\ cycle.main = "failed" /\ cycle.cons = "failed")
          => FailedInsufficient

\* C7 witness: both fetches failed on the very first cycle.
C7_Witness ==
    /\ cycle.first /\ cycle.main = "failed" /\ cycle.cons = "failed"
    /\ cycle.prev = EmptyDict
    /\ FailedInsufficient

\* C8: a cycle that starts without a token runs the Authenticator first;
\* when the Authenticator fails the cycle fails, no extractor is invoked and
\* the token is still unset at the end of the cycle.
C8_AuthFailureAbortsCycle ==
    (cycle # NoCycle /\ cycle.keyBefore = NoKey) =>
        /\ Head(cycle.steps) = "auth"
        /\ cycle.err.kind \in {"AuthenticationFailed", "SerialNotFound"} =>
              /\ cycle.steps = <<"auth">>
              /\ cycle.main = "none" /\ cycle.cons = "none"
              /\ ~last_update_success
              /\ receipt_line_key = NoKey

\* C8 witness: the login passed and no dashboard link named the serial
\* number.
C8_Witness ==
    /\ cycle.keyBefore = NoKey
    /\ cycle.err.kind = "SerialNotFound"
    /\ cycle.steps = <<"auth">>
    /\ receipt_line_key = NoKey

\* C9: the water_increment a cycle attaches, and the one published, is
\* never negative.
C9_IncrementNonNegative ==
    /\ IncrementRan => Attached >= 0
    /\ (data.set /\ "water_increment" \in DOMAIN data.v)
          => data.v["water_increment"].i >= 0

\* C9 witness: the rollover branch, a value below the stored baseline.
C9_Witness ==
    /\ IncrementRan /\ cycle.before > 0 /\ Fed < cycle.before
    /\ Attached = Fed /\ Attached > 0

\* C10: when the second response lacks the graph container the consumption
\* extractor returns an empty result without raising; when the first
\* response lacks the live container it raises; either way the cycle goes on
\* with the previous snapshot and the main data only.
C10_GraphAbsentVersusLiveAbsent ==
    /\ (PastAuth /\ cycle.live /\ cycle.propsOk /\ ~cycle.graph) =>
          /\ cycle.cons = "ok"
          /\ cycle.consResult = EmptyDict
          /\ WithoutIncrement(cycle.merged)
                = WithoutIncrement(Update(cycle.prev, cycle.mainResult))
    /\ (PastAuth /\ ~cycle.live) =>
          /\ cycle.cons = "failed"
          /\ WithoutIncrement(cycle.merged)
                = WithoutIncrement(Update(cycle.prev, cycle.mainResult))

\* C10 witness: the graph container was absent and the cycle published the
\* main data it fetched.
C10_Witness ==
    /\ PastAuth /\ cycle.live /\ cycle.propsOk /\ ~cycle.graph
    /\ cycle.cons = "ok" /\ cycle.main = "ok"
    /\ last_update_success


(***************************************************************************)
(* The main-data extractor taken alone, on summaries drawn from bounded    *)
(* sets of items.                                                          *)
(***************************************************************************)
\* The codes an item may carry: the catalogue, an unknown code, an empty
\* code and no code.
ItemCodes ==
    {StrV(c) : c \in DOMAIN code_mapping} \cup {StrV("newCode"), StrV(""), NullV}

\* The values an item may carry: none, a falsy one and a truthy one.
ItemValues == {NullV, IntV(0), IntV(1)}

Items == {Item(c, v) : c \in ItemCodes, v \in ItemValues}

ItemLists == UNION {[1..n -> Items] : n \in 0..MaxItems}

\* Summaries under test: a refused request, and answers with or without
\* top-level fields whose items sit in a list or in a category that is none.
Summaries ==
    {Summary(500, Absent, Absent, Absent, <<>>)}
    \cup {Summary(200, top[1], Absent, top[2], <<Category(list, items)>>) :
            top \in {<<Absent, Absent>>, <<BoolV(TRUE), IntV(0)>>},
            list \in BOOLEAN, items \in ItemLists}

InitMain ==
    /\ InitCoordinator
    /\ serial_number = SerialA
    /\ entry_data = Absent
    /\ summary \in Summaries
    /\ main_data = NotFetched

\* One call of _get_main_data on the summary under test.
FetchMain ==
    /\ ~main_data.done
    /\ main_data' = [done |-> TRUE,
                     ok |-> _get_main_data(summary).ok,
                     result |-> _get_main_data(summary).result]
    /\ UNCHANGED <<serial_number, entry_data, entry_options, receipt_line_key,
                   _last_main_update, _last_water_consumption, data,
                   last_update_success, now, cycle, entry_data_consumption,
                   entry_options_consumption, update_interval, summary>>

NextMain == FetchMain

SpecMain == InitMain /\ [][NextMain]_vars

\* The items of the categories that are lists, in the order of the answer.
RECURSIVE ListedItems(_)
ListedItems(categories) ==
    IF categories = <<>> THEN <<>>
    ELSE (IF Head(categories).list THEN Head(categories).items ELSE <<>>)
         \o ListedItems(Tail(categories))

\* The keys set before the categories are read, and the catalogue's keys.
TopKeys == {"online", "standby", "salt"}
CanonicalKeys == {code_mapping[c] : c \in DOMAIN code_mapping}

\* The positions of the listed items of code c whose value is not null.
Carrying(items, c) ==
    {i \in 1..Len(items) : items[i].code = StrV(c) /\ items[i].value # NullV}

Last(positions) == CHOOSE i \in positions : \A j \in positions : j <= i

\* C11: the result of the main-data extractor holds only online, standby,
\* salt and canonical keys of the catalogue; a catalogued code is written
\* under its one canonical key exactly when a listed item carries it with a
\* value that is not null, the last such item giving the value; items of
\* unknown codes add no key.
C11_MainResultKeys ==
    (main_data.done /\ main_data.ok) =>
        LET r == main_data.result
            body == summary.body
            items == ListedItems(body.dataCategories)
        IN /\ DOMAIN r \subseteq TopKeys \cup CanonicalKeys
           /\ TopKeys \subseteq DOMAIN r
           /\ r["online"] = GetOr(body.online, BoolV(FALSE))
           /\ r["standby"] = GetOr(body.standBy, BoolV(FALSE))
           /\ \A c \in DOMAIN code_mapping :
                 LET k == code_mapping[c]
                     at == Carrying(items, c)
                 IN /\ k \in CanonicalKeys
                    /\ at # {} => (k \in DOMAIN r /\ r[k] = items[Last(at)].value)
                    /\ (at = {} /\ k \notin TopKeys) => k \notin DOMAIN r
                    /\ (at = {} /\ k = "salt") => r[k] = GetOr(body.salt, NullV)
           /\ \A c, d \in DOMAIN code_mapping :
                 code_mapping[c] = code_mapping[d] => c = d

\* An answer whose list holds an item of an unknown code with a value and a
\* catalogued item that was written.
C11_Witness ==
    /\ main_data.done /\ main_data.ok
    /\ LET items == ListedItems(summary.body.dataCategories)
       IN /\ \E i \in 1..Len(items) :
                items[i].code = StrV("newCode") /\ items[i].value # NullV
          /\ \E i \in 1..Len(items) :
                items[i].code = StrV("resinVol") /\ items[i].value = IntV(0)
    /\ DOMAIN main_data.result = TopKeys \cup {"resin_vol"}


(***************************************************************************)
(* The gate of the main fetch.                                             *)
(***************************************************************************)
\* A step of the coordinator itself: neither the clock nor the options move.
CycleStep == now' = now /\ entry_options' = entry_options

\* The time elapsed since the last successful main fetch exceeds the main
\* interval in force.
Elapsed == (now - _last_main_update) > interval_main

\* C12: a cycle that reaches the gate invokes the main extractor exactly
\* when the time elapsed since the last successful main fetch strictly
\* exceeds the main interval; the timestamp of the last main fetch moves
\* only when the main fetch succeeds, to the clock reading; after a failed
\* main fetch the gate is still open, and stays open while the interval and
\* the timestamp are unchanged; a failed main fetch fails the cycle only
\* through the insufficient-data check.
C12_MainFetchGate ==
    [][ /\ (CycleStep /\ PastAuth') => ((cycle'.main # "skipped") <=> Elapsed)
        /\ (_last_main_update' # _last_main_update) =>
              (CycleStep /\ cycle'.main = "ok")
        /\ (CycleStep /\ PastAuth' /\ cycle'.main = "ok") =>
              _last_main_update' = now
        /\ (CycleStep /\ PastAuth' /\ cycle'.main = "failed") =>
              /\ _last_main_update' = _last_main_update
              /\ Elapsed'
              /\ ~last_update_success' =>
                    /\ cycle'.err = InsufficientError
                    /\ DictLen(cycle'.merged) < MinFields
        /\ (Elapsed /\ interval_main' = interval_main
                    /\ _last_main_update' = _last_main_update) => Elapsed'
      ]_vars

\* A cycle whose main fetch failed, that succeeded all the same, and after
\* which the gate is open for the next cycle.
C12_Witness ==
    /\ cycle.main = "failed"
    /\ last_update_success
    /\ "publish" \in {cycle.steps[i] : i \in 1..Len(cycle.steps)}
    /\ Elapsed


(***************************************************************************)
(* The order of the sub-steps of a cycle.                                  *)
(***************************************************************************)
\* The sub-steps in the order of the source.
StepOrder == <<"auth", "main", "consumption", "increment", "publish">>

Position(step) == CHOOSE i \in 1..Len(StepOrder) : StepOrder[i] = step

Ran(step) == \E i \in 1..Len(cycle.steps) : cycle.steps[i] = step

\* The last cycle stopped at the Authenticator.
StoppedAtAuth == cycle.err.kind \in {"AuthenticationFailed", "SerialNotFound"}

\* C13: the sub-steps of a cycle run in the order authentication, main
\* fetch, consumption fetch, increment computation, publication; a cycle
\* that starts without a token starts with the Authenticator; every cycle
\* that gets past authentication invokes the consumption extractor; no
\* extractor is invoked without a token.
C13_StepOrder ==
    cycle # NoCycle =>
        /\ \A i, j \in 1..Len(cycle.steps) :
              i < j => Position(cycle.steps[i]) < Position(cycle.steps[j])
        /\ \A i \in 1..Len(cycle.steps) :
              \E k \in 1..Len(StepOrder) : cycle.steps[i] = StepOrder[k]
        /\ Ran("auth") <=> cycle.keyBefore = NoKey
        /\ StoppedAtAuth => (cycle.steps = <<"auth">> /\ cycle.key = NoKey)
        /\ ~StoppedAtAuth => (Ran("consumption") /\ cycle.cons # "none")
        /\ (Ran("main") \/ Ran("consumption")) => cycle.key # NoKey
        /\ Ran("main") <=> cycle.main \in {"ok", "failed"}
        /\ Ran("increment") <=> IncrementRan
        /\ Ran("publish") <=> last_update_success

\* A cycle that ran all five sub-steps.
C13_Witness == cycle.steps = StepOrder /\ cycle.key # NoKey


(***************************************************************************)
(* When the increment computation runs.                                    *)
(***************************************************************************)
\* The last cycle's consumption fetch brought a cumulative value.
FreshValue ==
    cycle.cons = "ok" /\ "water_consumption" \in DOMAIN cycle.consResult

\* The snapshot of the last cycle as the two merges leave it.
MergedFetches == Update(Update(cycle.prev, cycle.mainResult), cycle.consResult)

\* The water_increment field of a snapshot, Absent when it has none.
IncrementOf(d) ==
    IF "water_increment" \in DOMAIN d THEN d["water_increment"] ELSE Absent

\* C14 as stated: the increment computation runs once per consumption fetch
\* that brings a cumulative value; in a cycle whose consumption fetch failed
\* or brought no cumulative value the computation does not run and the
\* water_increment field of the snapshot is not rewritten.
C14_IncrementOnlyOnFreshValue ==
    PastAuth =>
        /\ FreshValue => IncrementRan
        /\ ~FreshValue =>
              /\ ~IncrementRan
              /\ IncrementOf(cycle.merged) = IncrementOf(cycle.prev)

\* C14 amended: the increment computation runs exactly in the cycles whose
\* merged snapshot, the previous snapshot included, carries
\* water_consumption; when the consumption fetch failed or brought no
\* cumulative value it runs on the value kept from the previous snapshot,
\* leaves the baseline as it was and rewrites water_increment to 0; when it
\* does not run the snapshot is the merge of the fetches, untouched.
C14_IncrementOnMergedValue ==
    PastAuth =>
        /\ IncrementRan <=> "water_consumption" \in DOMAIN MergedFetches
        /\ ~IncrementRan => cycle.merged = MergedFetches
        /\ IncrementRan =>
              cycle.merged = Put(MergedFetches, "water_increment", IntV(Attached))
        /\ (IncrementRan /\ ~FreshValue) =>
              /\ Fed = cycle.prev["water_consumption"].i
              /\ cycle.before = Fed
              /\ _last_water_consumption = cycle.before
              /\ Attached = 0

\* A cycle whose consumption fetch failed and that rewrote a water_increment
\* of the previous snapshot that was not 0.
C14_Witness ==
    /\ PastAuth
    /\ cycle.cons = "failed"
    /\ IncrementRan
    /\ IncrementOf(cycle.prev) \notin {Absent, IntV(0)}
    /\ Attached = 0


(***************************************************************************)
(* The token after a cycle that ended in the outer except.                 *)
(***************************************************************************)
\* The last cycle ended in the outer except.
RaisedAtTop == cycle.err # NoErr

\* C15: a cycle that ends in the outer except on an error whose text holds
\* "401" or "403" leaves the token unset, and the cycle after it starts with
\* the Authenticator; a cycle that ends there on an error without such a
\* marker leaves the token as it was when the error was raised: as the
\* cycle found it when it started with one, as its Authenticator left it
\* otherwise.
C15_TokenAfterTopLevelError ==
    [][ CycleStep =>
          /\ (RaisedAtTop' /\ HasAuthMarker(cycle'.err.text)) =>
                receipt_line_key' = NoKey
          /\ (RaisedAtTop' /\ ~HasAuthMarker(cycle'.err.text)) =>
                /\ receipt_line_key' = cycle'.key
                /\ receipt_line_key # NoKey =>
                      receipt_line_key' = receipt_line_key
          /\ (RaisedAtTop /\ HasAuthMarker(cycle.err.text)) =>
                Head(cycle'.steps) = "auth"
      ]_vars

\* A later cycle that ran the Authenticator and ended on an error whose
\* text holds a marker, the token being unset.
C15_Witness ==
    /\ ~cycle.first
    /\ cycle.steps = <<"auth">>
    /\ RaisedAtTop
    /\ HasAuthMarker(cycle.err.text)
    /\ receipt_line_key = NoKey


(***************************************************************************)
(* The baseline of the rollover-aware counter.                             *)
(***************************************************************************)
\* C16: after every increment computation, whichever branch it took, the
\* stored baseline is the cumulative value it was given; whenever the
\* published snapshot carries water_consumption the baseline is that value.
C16_BaselineIsLastValue ==
    /\ IncrementRan => _last_water_consumption = Fed
    /\ (data.set /\ "water_consumption" \in DOMAIN data.v) =>
          _last_water_consumption = data.v["water_consumption"].i

\* A published cycle whose value went below the baseline.
C16_Witness ==
    /\ IncrementRan
    /\ last_update_success
    /\ Fed < cycle.before
    /\ _last_water_consumption = Fed
    /\ data.v["water_consumption"] = IntV(Fed)


(***************************************************************************)
(* The two intervals after an options update.                              *)
(***************************************************************************)
\* The interval in force among an option, a configured value and a default.
InForce(option, configured, default) ==
    IF option # Absent THEN option.i
    ELSE IF configured # Absent THEN configured.i ELSE default

C18_SuccessIsAbsorbing ==
    [][ /\ data'.set =>
              /\ available'
              /\ receipt_line_key' # NoKey
              /\ DictLen(data'.v) >= MinFields
        /\ (data.set /\ CycleStep) =>
              /\ Ran("publish")'
              /\ ~Ran("auth")'
              /\ cycle'.err = NoErr
              /\ receipt_line_key' = receipt_line_key
        /\ available => available'
      ]_vars

\* A cycle over a published snapshot whose two fetches both failed and that
\* published all the same.
C18_Witness ==
    /\ cycle.prev # EmptyDict
    /\ cycle.main = "failed"
    /\ cycle.cons = "failed"
    /\ Ran("publish")
    /\ available


(***************************************************************************)
(* What a failed cycle leaves behind.                                      *)
(***************************************************************************)
\* C19: a cycle that fails, at the Authenticator or at the sufficiency
\* check, leaves the published snapshot, the timestamp of the last main
\* fetch and the baseline of the counter as they were; what it merged went
\* into a copy and is not published.
C19_FailedCycleChangesNothing ==
    [][ (CycleStep /\ cycle'.err # NoErr) =>
          /\ ~last_update_success'
          /\ data' = data
          /\ _last_main_update' = _last_main_update
          /\ _last_water_consumption' = _last_water_consumption
          /\ cycle'.prev = PreviousData
      ]_vars

\* A cycle that got past the Authenticator, merged a fetch into its copy and
\* failed the sufficiency check, the published snapshot staying unset.
C19_Witness ==
    /\ cycle.err = InsufficientError
    /\ cycle.merged # EmptyDict
    /\ cycle.merged # cycle.prev
    /\ data = NoData
    /\ ~last_update_success
    /\ _last_main_update = 0
    /\ _last_water_consumption = 0


(***************************************************************************)
(* The first cycle after construction.                                     *)
(***************************************************************************)
\* C20: the timestamp of the last main fetch starts at 0, so the first
\* cycle that reaches the gate invokes the main extractor exactly when the
\* clock reading exceeds the main interval in force; when it does not, the
\* cycle starts from an empty snapshot, merges the consumption fetch alone
\* and is published exactly when that fetch brought at least three fields.
C20_FirstCycleGate ==
    [][ (CycleStep /\ cycle'.first /\ PastAuth') =>
          /\ _last_main_update = 0
          /\ (cycle'.main # "skipped")
                <=> now > InForce(entry_options, entry_data,
                                  DEFAULT_INTERVAL_MAIN)
          /\ cycle'.main = "skipped" =>
                /\ cycle'.prev = EmptyDict
                /\ WithoutIncrement(cycle'.merged) = cycle'.consResult
                /\ last_update_success'
                      <=> (/\ cycle'.cons = "ok"
                           /\ DictLen(cycle'.consResult) >= MinFields)
      ]_vars

\* A first cycle at a clock reading within the main interval: the main
\* fetch was skipped and the consumption fetch alone got it published.
C20_Witness ==
    /\ cycle.first
    /\ cycle.main = "skipped"
    /\ cycle.cons = "ok"
    /\ now > 0
    /\ now <= interval_main
    /\ Ran("publish")
    /\ "online" \notin DOMAIN data.v

====
